---- MODULE Spec2Model ----
(***************************************************************************)
(* Model of the browser-side toggle handlers of pcr_designer:              *)
(*   static/main.js        top-level script, attaches listeners unguarded  *)
(*   static/js/toggles.js  DOMContentLoaded handler, guarded per feature   *)
(* The page markup (which elements exist, their classes, attributes and    *)
(* text) is the input; the DOM the handlers mutate is the state.           *)
(***************************************************************************)
EXTENDS Naturals, Sequences, FiniteSets, TLC

\* ------------------------------------------------------------------ bounds
NumBtns == 2        \* buttons per toggle group in the markup

\* ------------------------------------------------------- elements of the page
\* An element is <<id or group class, index>>: index 0 for elements found by
\* getElementById, 1..NumBtns for the buttons found by querySelectorAll.
modeInput      == <<"mode-input", 0>>
singleSection  == <<"single-section", 0>>
multiSection   == <<"multi-section", 0>>
primerInput    == <<"primer-type-input", 0>>
referenceInput == <<"reference-input", 0>>
probeInput     == <<"probe-input", 0>>
qcToggleBtn    == <<"qc-toggle-btn", 0>>
qcPanel        == <<"qc-panel", 0>>

Ids == {modeInput, singleSection, multiSection, primerInput, referenceInput,
        probeInput, qcToggleBtn, qcPanel}

Groups == {"mode-btn", "primer-btn", "ref-btn-ref", "probe-btn"}

Buttons == Groups \X (1..NumBtns)

Elems == Ids \cup Buttons

Sections == {singleSection, multiSection, qcPanel}

\* the hidden field each group writes
FieldOf(g) ==
    CASE g = "mode-btn"    -> modeInput
      [] g = "primer-btn"  -> primerInput
      [] g = "ref-btn-ref" -> referenceInput
      [] g = "probe-btn"   -> probeInput

Fields == {FieldOf(g) : g \in Groups}

Scripts == {"main.js", "toggles.js"}

ShowLabel  == "Show QC Thresholds ▼"
HideLabel  == "Hide QC Thresholds ▲"
OtherLabel == "QC Thresholds"        \* any other text the markup may carry

Null == "#null"                      \* getAttribute on a missing attribute
EmptyStr == ""

\* ------------------------------------------------------------------- state
VARIABLES
    page,        \* the markup and environment the page loads with (never changes)
    cls,         \* classList of every element
    value,       \* value of every hidden field
    label,       \* textContent of #qc-toggle-btn
    listeners,   \* click listeners of every element, in the order attached
    loaded,      \* scripts whose load-time code has run
    errors,      \* uncaught errors so far: <<script, controller, line>>
    hist,        \* <<hidden, label>> of the QC panel before each of the last toggles (at most 2)
    lastClick    \* the last click dispatched: its target and how many handlers ran

vars == <<page, cls, value, label, listeners, loaded, errors, hist, lastClick>>

\* ------------------------------------------------------------- page markup
\* A page is what the browser hands the scripts:
\*   scripts  the scripts the page includes
\*   ids      the elements with an id that exist
\*   groups   the button classes that have buttons (NumBtns each)
\*   noattr   the buttons without their data-* attribute
\*   active   the buttons the markup marks "active"
\*   hidden   the sections the markup marks "hidden"
\*   label    the text of #qc-toggle-btn
\*   require  whether the environment defines require()
ModeValues  == <<"single", "multi", "multi-b", "multi-c">>
OtherValues == <<"a", "b", "c", "d">>

\* the data-* value the markup gives button b
DataValue(b) == IF b[1] = "mode-btn" THEN ModeValues[b[2]] ELSE OtherValues[b[2]]

ScriptSets == (SUBSET Scripts) \ {{}}

GroupSections(g) == IF g = "mode-btn" THEN {singleSection, multiSection} ELSE {}

\* the expected page: every group as designed; the QC panel with the elements in q
FullPages ==
    {[scripts |-> ss,
      ids     |-> Fields \cup {singleSection, multiSection} \cup q,
      groups  |-> Groups,
      noattr  |-> {},
      active  |-> Groups \X {1},
      hidden  |-> {multiSection} \cup (q \cap {qcPanel}),
      label   |-> IF qcToggleBtn \in q THEN ShowLabel ELSE Null,
      require |-> FALSE] :
        ss \in ScriptSets, q \in {{qcToggleBtn, qcPanel}, {qcToggleBtn}, {qcPanel}}}

\* pages carrying one toggle group, in every markup it may have
GroupPages ==
    UNION {
      {[scripts |-> ss,
        ids     |-> f \cup secs,
        groups  |-> gs,
        noattr  |-> na,
        active  |-> act,
        hidden  |-> hid,
        label   |-> Null,
        require |-> FALSE] :
          ss \in ScriptSets,
          f \in SUBSET {FieldOf(g)},
          gs \in SUBSET {g},
          secs \in SUBSET GroupSections(g),
          hid \in SUBSET GroupSections(g),
          na \in {{}} \cup {{<<g, i>>} : i \in 1..NumBtns},
          act \in SUBSET ({g} \X (1..NumBtns))} : g \in Groups}

\* pages carrying the QC panel alone, in every markup it may have
QcPages ==
    {[scripts |-> ss,
      ids     |-> q,
      groups  |-> {},
      noattr  |-> {},
      active  |-> {},
      hidden  |-> hid,
      label   |-> IF qcToggleBtn \in q THEN lab ELSE Null,
      require |-> req] :
        ss \in ScriptSets,
        q \in SUBSET {qcToggleBtn, qcPanel},
        hid \in SUBSET {qcPanel},
        lab \in {ShowLabel, HideLabel, OtherLabel},
        req \in BOOLEAN}

\* markup of elements that do not exist is dropped
Normalize(p) ==
    [p EXCEPT !.noattr = {b \in @ : b[1] \in p.groups},
              !.active = {b \in @ : b[1] \in p.groups},
              !.hidden = @ \cap p.ids]

Pages == {Normalize(p) : p \in FullPages \cup GroupPages \cup QcPages}

\* ------------------------------------------------------------- DOM queries
Exists(e) == IF e \in Ids THEN e \in page.ids ELSE e[1] \in page.groups

\* classList of element e as the markup gives it
PageClasses(e) ==
    IF ~Exists(e) THEN {}
    ELSE IF e \in Buttons THEN {e[1], "btn"} \cup (IF e \in page.active THEN {"active"} ELSE {})
    ELSE IF e \in Sections THEN {"section"} \cup (IF e \in page.hidden THEN {"hidden"} ELSE {})
    ELSE IF e = qcToggleBtn THEN {"btn"}
    ELSE {}

\* value of hidden field f as the markup gives it
PageValue(f) == IF Exists(f) THEN EmptyStr ELSE Null

getAttribute(b) == IF b \in page.noattr THEN Null ELSE DataValue(b)

\* document.querySelectorAll("." + g)
querySelectorAll(g) == {b \in Buttons : b[1] = g /\ Exists(b)}

modeBtns   == querySelectorAll("mode-btn")
primerBtns == querySelectorAll("primer-btn")
refBtns    == querySelectorAll("ref-btn-ref")
probeBtns  == querySelectorAll("probe-btn")

\* ------------------------------------------------------------ DOM mutation
\* The mutable DOM a handler works on: [cls, value, label, errors, hist], and
\* ran, the scripts whose listener the running dispatch has called so far.
Dom == [cls |-> cls, value |-> value, label |-> label, errors |-> errors, hist |-> hist,
        ran |-> <<>>]

\* mutant: element.className = c instead of classList.add(c)
classListAdd_Overwrite(st, e, c) == [st EXCEPT !.cls[e] = {c}]

classListAdd(st, e, c)    == [st EXCEPT !.cls[e] = @ \cup {c}]
classListRemove(st, e, c) == [st EXCEPT !.cls[e] = @ \ {c}]
classListToggle(st, e, c) ==
    IF c \in st.cls[e] THEN classListRemove(st, e, c) ELSE classListAdd(st, e, c)

\* mutant: setAttribute("value", v), which writes null through as a string
setValue_NullThrough(st, f, v) == [st EXCEPT !.value[f] = v]

\* input.value = v : the setter turns null into the empty string
setValue(st, f, v) == [st EXCEPT !.value[f] = IF v = Null THEN EmptyStr ELSE v]

\* an uncaught TypeError / ReferenceError ends the running function
Throw(st, script, ctrl, line) == [st EXCEPT !.errors = @ \cup {<<script, ctrl, line>>}]

\* btns.forEach(b => b.classList.remove("active")); btn.classList.add("active");
clearActive(st, btns) ==
    [st EXCEPT !.cls = [e \in Elems |-> IF e \in btns THEN st.cls[e] \ {"active"} ELSE st.cls[e]]]

\* mutant: the forEach that clears the markers is left out
setActive_NoClear(st, btns, btn) == classListAdd(st, btn, "active")

setActive(st, btns, btn) == classListAdd(clearActive(st, btns), btn, "active")

\* mutant: both sections flipped with classList.toggle, whatever the mode
showSection_Toggle(st, mode, script, l1, l2, l3, l4) ==
    IF ~Exists(singleSection) THEN Throw(st, script, "mode-btn", l1)
    ELSE IF ~Exists(multiSection)
         THEN Throw(classListToggle(st, singleSection, "hidden"), script, "mode-btn", l2)
    ELSE classListToggle(classListToggle(st, singleSection, "hidden"), multiSection, "hidden")

\* mutant: the other section is never hidden again
showSection_NoHide(st, mode, script, l1, l2, l3, l4) ==
    IF mode = "single"
    THEN IF ~Exists(singleSection) THEN Throw(st, script, "mode-btn", l1)
         ELSE classListRemove(st, singleSection, "hidden")
    ELSE IF ~Exists(multiSection) THEN Throw(st, script, "mode-btn", l4)
         ELSE classListRemove(st, multiSection, "hidden")

\* if (mode === "single") {...} else {...}; a null section throws on .classList
showSection(st, mode, script, l1, l2, l3, l4) ==
    IF mode = "single"
    THEN IF ~Exists(singleSection) THEN Throw(st, script, "mode-btn", l1)
         ELSE IF ~Exists(multiSection)
              THEN Throw(classListRemove(st, singleSection, "hidden"), script, "mode-btn", l2)
         ELSE classListAdd(classListRemove(st, singleSection, "hidden"), multiSection, "hidden")
    ELSE IF ~Exists(singleSection) THEN Throw(st, script, "mode-btn", l3)
         ELSE IF ~Exists(multiSection)
              THEN Throw(classListAdd(st, singleSection, "hidden"), script, "mode-btn", l4)
         ELSE classListRemove(classListAdd(st, singleSection, "hidden"), multiSection, "hidden")

\* mutant: classList.add("hidden") instead of toggle
togglePanel_AddOnly(st) ==
    LET s1   == classListAdd(st, qcPanel, "hidden")
        snap == <<"hidden" \in st.cls[qcPanel], st.label>>
    IN [s1 EXCEPT !.label = ShowLabel,
                  !.hist  = IF Len(@) = 2 THEN <<@[2], snap>> ELSE Append(@, snap)]

\* mutant: the two labels swapped
togglePanel_LabelsSwapped(st) ==
    LET s1     == classListToggle(st, qcPanel, "hidden")
        hidden == "hidden" \in s1.cls[qcPanel]
        snap   == <<"hidden" \in st.cls[qcPanel], st.label>>
    IN [s1 EXCEPT !.label = IF hidden THEN HideLabel ELSE ShowLabel,
                  !.hist  = IF Len(@) = 2 THEN <<@[2], snap>> ELSE Append(@, snap)]

\* const hidden = panel.classList.toggle("hidden"); btn.textContent = hidden ? ... : ...
togglePanel(st) ==
    LET s1     == classListToggle(st, qcPanel, "hidden")
        hidden == "hidden" \in s1.cls[qcPanel]
        snap   == <<"hidden" \in st.cls[qcPanel], st.label>>
    IN [s1 EXCEPT !.label = IF hidden THEN ShowLabel ELSE HideLabel,
                  !.hist  = IF Len(@) = 2 THEN <<@[2], snap>> ELSE Append(@, snap)]

\* ------------------------------------------------------ main.js handlers
Main_modeBtnClick(btn, st) ==
    LET mode == getAttribute(btn)
    IN IF ~Exists(modeInput) THEN Throw(st, "main.js", "mode-btn", 10)
       ELSE showSection(setActive(setValue(st, modeInput, mode), modeBtns, btn),
                        mode, "main.js", 16, 17, 19, 20)

Main_primerBtnClick(btn, st) ==
    LET primerType == getAttribute(btn)
    IN IF ~Exists(primerInput) THEN Throw(st, "main.js", "primer-btn", 32)
       ELSE setActive(setValue(st, primerInput, primerType), primerBtns, btn)

\* mutant: the markers of every button of the page are cleared
Main_refBtnClick_ClearsAll(btn, st) ==
    LET ref == getAttribute(btn)
    IN IF ~Exists(referenceInput) THEN Throw(st, "main.js", "ref-btn-ref", 46)
       ELSE setActive(setValue(st, referenceInput, ref), {b \in Buttons : Exists(b)}, btn)

Main_refBtnClick(btn, st) ==
    LET ref == getAttribute(btn)
    IN IF ~Exists(referenceInput) THEN Throw(st, "main.js", "ref-btn-ref", 46)
       ELSE setActive(setValue(st, referenceInput, ref), refBtns, btn)

Main_probeBtnClick(btn, st) ==
    LET probeVal == getAttribute(btn)
    IN IF ~Exists(probeInput) THEN Throw(st, "main.js", "probe-btn", 61)
       ELSE setActive(setValue(st, probeInput, probeVal), probeBtns, btn)

Main_qcToggleClick(st) ==
    IF ~Exists(qcPanel) THEN Throw(st, "main.js", "qc-toggle-btn", 72)
    ELSE togglePanel(st)

\* --------------------------------------------------- toggles.js handlers
Toggles_modeBtnClick(btn, st) ==
    LET mode == getAttribute(btn)
    IN IF ~Exists(modeInput) THEN Throw(st, "toggles.js", "mode-btn", 16)
       ELSE showSection(setActive(setValue(st, modeInput, mode), modeBtns, btn),
                        mode, "toggles.js", 22, 23, 25, 26)

\* mutant: the markers of the reference group are cleared instead (copied block)
Toggles_primerBtnClick_WrongGroup(btn, st) ==
    LET primerType == getAttribute(btn)
    IN IF ~Exists(primerInput) THEN Throw(st, "toggles.js", "primer-btn", 40)
       ELSE setActive(setValue(st, primerInput, primerType), refBtns, btn)

Toggles_primerBtnClick(btn, st) ==
    LET primerType == getAttribute(btn)
    IN IF ~Exists(primerInput) THEN Throw(st, "toggles.js", "primer-btn", 40)
       ELSE setActive(setValue(st, primerInput, primerType), primerBtns, btn)

Toggles_refBtnClick(btn, st) ==
    LET ref == getAttribute(btn)
    IN IF ~Exists(referenceInput) THEN Throw(st, "toggles.js", "ref-btn-ref", 56)
       ELSE setActive(setValue(st, referenceInput, ref), refBtns, btn)

\* mutant: the value goes to the reference field (copied block)
Toggles_probeBtnClick_WrongField(btn, st) ==
    LET probeVal == getAttribute(btn)
    IN IF ~Exists(referenceInput) THEN Throw(st, "toggles.js", "probe-btn", 72)
       ELSE setActive(setValue(st, referenceInput, probeVal), probeBtns, btn)

Toggles_probeBtnClick(btn, st) ==
    LET probeVal == getAttribute(btn)
    IN IF ~Exists(probeInput) THEN Throw(st, "toggles.js", "probe-btn", 72)
       ELSE setActive(setValue(st, probeInput, probeVal), probeBtns, btn)

Toggles_qcToggleClick(st) ==
    IF ~Exists(qcPanel) THEN Throw(st, "toggles.js", "qc-toggle-btn", 86)
    ELSE togglePanel(st)

\* ------------------------------------------------------- event dispatch
\* the listener a script attached to element e
Handler(script, e, st) ==
    IF script = "main.js"
    THEN CASE e[1] = "mode-btn"      -> Main_modeBtnClick(e, st)
           [] e[1] = "primer-btn"    -> Main_primerBtnClick(e, st)
           [] e[1] = "ref-btn-ref"   -> Main_refBtnClick(e, st)
           [] e[1] = "probe-btn"     -> Main_probeBtnClick(e, st)
           [] e[1] = "qc-toggle-btn" -> Main_qcToggleClick(st)
    ELSE CASE e[1] = "mode-btn"      -> Toggles_modeBtnClick(e, st)
           [] e[1] = "primer-btn"    -> Toggles_primerBtnClick(e, st)
           [] e[1] = "ref-btn-ref"   -> Toggles_refBtnClick(e, st)
           [] e[1] = "probe-btn"     -> Toggles_probeBtnClick(e, st)
           [] e[1] = "qc-toggle-btn" -> Toggles_qcToggleClick(st)

\* a click runs the target's listeners in the order attached; an exception in
\* one listener is reported and the next listener still runs
\* mutant: the first listener stops the propagation (stopImmediatePropagation)
Dispatch_FirstOnly(ls, e, st) ==
    IF ls = <<>> THEN st
    ELSE [Handler(Head(ls), e, st) EXCEPT !.ran = Append(@, Head(ls))]

RECURSIVE Dispatch(_, _, _)
Dispatch(ls, e, st) ==
    IF ls = <<>> THEN st
    ELSE Dispatch(Tail(ls), e, [Handler(Head(ls), e, st) EXCEPT !.ran = Append(@, Head(ls))])

\* ------------------------------------------------------ load-time code
\* mutant: a listener already registered on the element is not added again
addEventListener_Once(ls, targets, script) ==
    [e \in Elems |-> IF e \in targets /\ ls[e] = <<>> THEN Append(ls[e], script) ELSE ls[e]]

addEventListener(ls, targets, script) ==
    [e \in Elems |-> IF e \in targets THEN Append(ls[e], script) ELSE ls[e]]

\* main.js, lines 1-76: no existence checks
MainTargets == modeBtns \cup primerBtns \cup refBtns \cup probeBtns
               \cup (IF Exists(qcToggleBtn) THEN {qcToggleBtn} ELSE {})

MainLoadErrors ==
    IF ~Exists(qcToggleBtn) THEN {<<"main.js", "qc-toggle-btn", 71>>}
    ELSE IF ~page.require THEN {<<"main.js", "top", 76>>}
    ELSE {}

\* toggles.js, lines 5-92: every feature behind an if
\* mutant: the test of the hidden field negated
TogglesModeTargets_Negated ==
    IF ~Exists(modeInput) /\ Exists(singleSection) /\ Exists(multiSection)
       /\ Cardinality(modeBtns) > 0
    THEN modeBtns ELSE {}

TogglesModeTargets ==
    IF Exists(modeInput) /\ Exists(singleSection) /\ Exists(multiSection)
       /\ Cardinality(modeBtns) > 0
    THEN modeBtns ELSE {}

TogglesGroupTargets(input, btns) ==
    IF Exists(input) /\ Cardinality(btns) > 0 THEN btns ELSE {}

TogglesQcTargets ==
    IF Exists(qcToggleBtn) /\ Exists(qcPanel) THEN {qcToggleBtn} ELSE {}

TogglesTargets ==
    TogglesModeTargets
    \cup TogglesGroupTargets(primerInput, primerBtns)
    \cup TogglesGroupTargets(referenceInput, refBtns)
    \cup TogglesGroupTargets(probeInput, probeBtns)
    \cup TogglesQcTargets

\* ------------------------------------------------------------- actions
NoClick == [target |-> <<"none", 0>>, handlers |-> 0, ran |-> <<>>]

Init ==
    /\ page \in Pages
    /\ cls = [e \in Elems |-> PageClasses(e)]
    /\ value = [f \in Fields |-> PageValue(f)]
    /\ label = page.label
    /\ listeners = [e \in Elems |-> <<>>]
    /\ loaded = {}
    /\ errors = {}
    /\ hist = <<>>
    /\ lastClick = NoClick

\* the browser runs main.js
LoadMain ==
    /\ "main.js" \in page.scripts \ loaded
    /\ loaded' = loaded \cup {"main.js"}
    /\ listeners' = addEventListener(listeners, MainTargets, "main.js")
    /\ errors' = errors \cup MainLoadErrors
    /\ UNCHANGED <<page, cls, value, label, hist, lastClick>>

\* mutant: the handler also sets the label from the panel's state at load
DOMContentLoaded_SyncsLabel ==
    /\ "toggles.js" \in page.scripts \ loaded
    /\ loaded' = loaded \cup {"toggles.js"}
    /\ listeners' = addEventListener(listeners, TogglesTargets, "toggles.js")
    /\ label' = IF TogglesQcTargets = {} THEN label
                ELSE IF "hidden" \in cls[qcPanel] THEN ShowLabel ELSE HideLabel
    /\ UNCHANGED <<page, cls, value, errors, hist, lastClick>>

\* the browser fires DOMContentLoaded at toggles.js
DOMContentLoaded ==
    /\ "toggles.js" \in page.scripts \ loaded
    /\ loaded' = loaded \cup {"toggles.js"}
    /\ listeners' = addEventListener(listeners, TogglesTargets, "toggles.js")
    /\ UNCHANGED <<page, cls, value, label, errors, hist, lastClick>>

\* the user clicks element e
ClickOn(e) ==
    /\ Exists(e)
    /\ LET st == Dispatch(listeners[e], e, Dom)
       IN /\ cls' = st.cls
          /\ value' = st.value
          /\ label' = st.label
          /\ errors' = st.errors
          /\ hist' = st.hist
          /\ lastClick' = [target |-> e, handlers |-> Len(st.ran), ran |-> st.ran]
    /\ UNCHANGED <<page, listeners, loaded>>

ClickButton == \E b \in Buttons : ClickOn(b)

ClickQcToggle == ClickOn(qcToggleBtn)

Next == LoadMain \/ DOMContentLoaded \/ ClickButton \/ ClickQcToggle

Spec == Init /\ [][Next]_vars

\* ------------------------------------------------------------ vocabulary
ActiveIn(g) == {b \in querySelectorAll(g) : "active" \in cls[b]}

PageActive(g) == {b \in querySelectorAll(g) : b \in page.active}

Hidden(e) == "hidden" \in cls[e]

ErrorsOf(ctrl) == {e \in errors : e[2] = ctrl}

\* the last click was on b and ran at least one handler
Clicked(b) == lastClick.target = b /\ lastClick.handlers > 0

\* every element the group's handler touches exists
GroupComplete(g) == Exists(FieldOf(g)) /\ GroupSections(g) \subseteq page.ids

QcComplete == Exists(qcToggleBtn) /\ Exists(qcPanel)

\* label and visibility of the QC panel agree
InSync == (Hidden(qcPanel) /\ label = ShowLabel) \/ (~Hidden(qcPanel) /\ label = HideLabel)

PageInSync ==
    \/ qcPanel \in page.hidden /\ page.label = ShowLabel
    \/ qcPanel \notin page.hidden /\ page.label = HideLabel

\* ------------------------------------------------------------------ claims

\* C1: after a click on button b of a group has been handled, b is the one
\* and only button of its group marked active, whatever the markers were.
C1_ClickedIsOnlyActive ==
    \A b \in Buttons :
        (Clicked(b) /\ Exists(FieldOf(b[1]))) => ActiveIn(b[1]) = {b}

\* a click on b was handled on a page that loaded its group with two buttons
\* marked active, b not the first of them
C1_Witness ==
    \E b \in Buttons :
        /\ Clicked(b) /\ Exists(FieldOf(b[1]))
        /\ Cardinality(PageActive(b[1])) >= 2
        /\ b[2] = 2
        /\ ActiveIn(b[1]) = {b}

\* C2: after a click on b has been handled, the hidden field of b's group holds
\* exactly the value of b's data attribute.
C2_FieldMirrorsButton ==
    \A b \in Buttons :
        (Clicked(b) /\ Exists(FieldOf(b[1])) /\ getAttribute(b) # Null)
            => value[FieldOf(b[1])] = getAttribute(b)

C2_Witness ==
    \E b \in Buttons :
        /\ Clicked(b) /\ Exists(FieldOf(b[1])) /\ getAttribute(b) # Null
        /\ b[1] = "probe-btn"
        /\ value[probeInput] = DataValue(b)
        /\ value[probeInput] # PageValue(probeInput)

\* C3: after a handled click on a mode button with value "single" the single
\* section is visible and the multi section hidden; with any other value the
\* reverse; so exactly one of the two is visible.
C3_ModeShowsOneSection ==
    \A b \in modeBtns :
        (Clicked(b) /\ GroupComplete("mode-btn")) =>
            /\ IF getAttribute(b) = "single"
               THEN ~Hidden(singleSection) /\ Hidden(multiSection)
               ELSE Hidden(singleSection) /\ ~Hidden(multiSection)
            /\ Hidden(singleSection) # Hidden(multiSection)

\* "single" was clicked on a page that loaded with the single section hidden
\* and the multi section visible
C3_Witness ==
    \E b \in modeBtns :
        /\ Clicked(b) /\ GroupComplete("mode-btn")
        /\ getAttribute(b) = "single"
        /\ page.hidden = {singleSection}
        /\ ~Hidden(singleSection) /\ Hidden(multiSection)

\* C4 as claimed: two toggles in succession restore the panel's hidden state
\* and the control's label, whatever they were.
C4_Original ==
    Len(hist) = 2 => <<Hidden(qcPanel), label>> = hist[1]

\* C4 amended: two toggles in succession restore the panel's hidden state; they
\* restore the label when it was the label the handler writes for that state.
C4_TwiceRestores ==
    Len(hist) = 2 =>
        /\ Hidden(qcPanel) = hist[1][1]
        /\ hist[1][2] = (IF hist[1][1] THEN ShowLabel ELSE HideLabel) => label = hist[1][2]

\* two toggles ran from a state whose label matched, and the state is back
C4_Witness ==
    /\ Len(hist) = 2
    /\ hist[1] = <<TRUE, ShowLabel>>
    /\ hist[2] = <<FALSE, HideLabel>>
    /\ Hidden(qcPanel) /\ label = ShowLabel

\* C5 as claimed: a group whose hidden field or whose buttons are missing has
\* no click listener and raises no error, at load or on a click.
C5_InertGroup ==
    \A g \in Groups :
        (~Exists(FieldOf(g)) \/ querySelectorAll(g) = {}) =>
            /\ \A b \in querySelectorAll(g) : listeners[b] = <<>>
            /\ ErrorsOf(g) = {}

\* C6 as claimed: without the toggle control or without the panel the QC panel
\* has no listener and raises no error, and every group still gets its
\* listeners from every script that has run.
C6_InertPanel ==
    ~QcComplete =>
        /\ listeners[qcToggleBtn] = <<>>
        /\ ErrorsOf("qc-toggle-btn") = {}
        /\ \A b \in Buttons : \A s \in loaded :
               (Exists(b) /\ GroupComplete(b[1])) => \E i \in 1..Len(listeners[b]) : listeners[b][i] = s

\* C7 as claimed: label and visibility agree in every reachable state.
C7_Original == QcComplete => InSync

\* C7 amended: label and visibility agree in every state reached after the
\* toggle handler has run, and before that whenever the page loaded them so.
C7_InSyncOnceToggled ==
    (QcComplete /\ (hist # <<>> \/ PageInSync)) => InSync

\* the page loaded out of sync and a toggle put it in sync
C7_Witness ==
    /\ QcComplete /\ ~PageInSync
    /\ hist # <<>>
    /\ InSync

\* C8 as claimed: at most one button of each group is active in every state.
C8_Original == \A g \in Groups : Cardinality(ActiveIn(g)) <= 1

\* C8 amended: at most one button of each group is active, unless the group's
\* markers are still exactly those the page loaded with.
C8_AtMostOneActive ==
    \A g \in Groups : Cardinality(ActiveIn(g)) <= 1 \/ ActiveIn(g) = PageActive(g)

\* a group that loaded with two active buttons has one after a handled click
C8_Witness ==
    \E b \in Buttons :
        /\ Clicked(b)
        /\ Cardinality(PageActive(b[1])) = 2
        /\ Cardinality(ActiveIn(b[1])) = 1

\* C9: a handled click on a button without its data attribute raises no error,
\* leaves the empty string in the hidden field and b the only active button.
C9_MissingAttribute ==
    \A b \in Buttons :
        (Clicked(b) /\ GroupComplete(b[1]) /\ getAttribute(b) = Null) =>
            /\ ErrorsOf(b[1]) = {}
            /\ value[FieldOf(b[1])] = EmptyStr
            /\ ActiveIn(b[1]) = {b}

C9_Witness ==
    \E b \in Buttons :
        /\ Clicked(b) /\ GroupComplete(b[1]) /\ getAttribute(b) = Null
        /\ b[1] = "mode-btn"
        /\ PageActive(b[1]) = {}
        /\ value[modeInput] = EmptyStr
        /\ ActiveIn(b[1]) = {b}

\* C10: a step changes no class other than "active" and "hidden"; "active"
\* only on group buttons, "hidden" only on the two sections and the QC panel.
C10_OnlyActiveAndHidden ==
    [][\A e \in Elems :
          /\ cls'[e] \ {"active", "hidden"} = cls[e] \ {"active", "hidden"}
          /\ ("active" \in cls'[e]) # ("active" \in cls[e]) => e \in Buttons
          /\ ("hidden" \in cls'[e]) # ("hidden" \in cls[e]) => e \in Sections]_vars

\* clicks have changed the active button of a group, both sections and the panel
C10_Witness ==
    /\ \E b \in Buttons : "active" \in cls[b] /\ b \notin page.active
    /\ \E b \in Buttons : "active" \notin cls[b] /\ b \in page.active
    /\ Hidden(singleSection) /\ singleSection \notin page.hidden
    /\ ~Hidden(multiSection) /\ multiSection \in page.hidden
    /\ ~Hidden(qcPanel) /\ qcPanel \in page.hidden

\* script s has a click listener on element e
HasListener(e, s) == \E i \in 1..Len(listeners[e]) : listeners[e][i] = s

\* what the value setter leaves in a field written with v
Written(v) == IF v = Null THEN EmptyStr ELSE v

C12_LoadChangesNothing ==
    lastClick = NoClick =>
        /\ cls = [e \in Elems |-> PageClasses(e)]
        /\ value = [f \in Fields |-> PageValue(f)]
        /\ label = page.label

\* both scripts have run on a page whose label is other text, no click yet
C12_Witness ==
    /\ lastClick = NoClick
    /\ loaded = Scripts
    /\ listeners[qcToggleBtn] # <<>>
    /\ page.label = OtherLabel
    /\ label = OtherLabel
    /\ Hidden(qcPanel)

\* the page has every element the scripts look up
AllPresent == page.ids = Ids /\ page.groups = Groups

\* the elements the scripts register click listeners on
Targets == Buttons \cup {qcToggleBtn}

\* C13: on a page with every expected element, once both scripts have run,
\* every group button and the QC control has two click listeners, one from
\* each script, and a click runs both, one after the other, in the order
\* attached (on the QC control: two toggles, the second from the state the
\* first left).
C13_DoubleRegistration ==
    [][(AllPresent /\ loaded = Scripts) =>
          /\ \A e \in Targets :
                /\ Len(listeners[e]) = 2
                /\ {listeners[e][1], listeners[e][2]} = Scripts
          /\ lastClick'.target \in Targets
          /\ lastClick'.ran = listeners[lastClick'.target]
          /\ lastClick'.target = qcToggleBtn =>
                /\ Len(hist') = 2
                /\ hist'[1] = <<"hidden" \in cls[qcPanel], label>>
                /\ hist'[2][1] = ~hist'[1][1]]_vars

\* one click on the QC control ran main.js's handler, then toggles.js's
C13_Witness ==
    /\ AllPresent /\ loaded = Scripts
    /\ listeners[qcToggleBtn] = <<"main.js", "toggles.js">>
    /\ lastClick.target = qcToggleBtn
    /\ lastClick.ran = <<"main.js", "toggles.js">>
    /\ hist = <<<<TRUE, ShowLabel>>, <<FALSE, HideLabel>>>>

\* C14: while the QC control has two click listeners, no step changes whether
\* the QC panel is hidden: each click toggles it twice.
C14_DoubleToggleCancels ==
    [][Len(listeners[qcToggleBtn]) = 2 =>
          ("hidden" \in cls'[qcPanel]) = ("hidden" \in cls[qcPanel])]_vars

\* a click ran both handlers on a panel loaded visible with other label text:
\* the panel is still visible, the label is now the handler's
C14_Witness ==
    /\ Len(listeners[qcToggleBtn]) = 2
    /\ lastClick.target = qcToggleBtn
    /\ Len(lastClick.ran) = 2
    /\ qcPanel \notin page.hidden /\ ~Hidden(qcPanel)
    /\ page.label = OtherLabel /\ label = HideLabel

\* C15: once a click on button b has been handled, running any of the
\* handlers it ran a second time leaves every hidden field and every class
\* list, the markers and both sections included, as the click left them.
C15_SelectIdempotent ==
    \A b \in Buttons : Clicked(b) =>
        \A i \in 1..Len(lastClick.ran) :
            LET again == Handler(lastClick.ran[i], b, Dom)
            IN again.value = value /\ again.cls = cls

\* one click ran the mode handler twice and moved both sections; a further
\* run would change nothing
C15_Witness ==
    \E b \in modeBtns :
        /\ lastClick.target = b
        /\ Len(lastClick.ran) = 2
        /\ multiSection \in page.hidden /\ ~Hidden(multiSection)
        /\ singleSection \notin page.hidden /\ Hidden(singleSection)
        /\ Handler("toggles.js", b, Dom).cls = cls
        /\ Handler("main.js", b, Dom).value = value

\* C16: a step changes class lists only of the buttons of the clicked group,
\* of the two sections when a mode button was clicked and of the QC panel when
\* the QC control was clicked (there only the "hidden" class); it changes no
\* hidden field but the clicked group's, and the label only on a click on the
\* QC control.
C16_ControllersIndependent ==
    [][LET t == lastClick'.target
       IN /\ \A e \in Elems :
                cls'[e] # cls[e] =>
                    \/ t \in Buttons /\ e \in Buttons /\ e[1] = t[1]
                    \/ t[1] = "mode-btn" /\ e \in {singleSection, multiSection}
                    \/ t = qcToggleBtn /\ e = qcPanel
          /\ \A f \in Fields :
                value'[f] # value[f] => (t \in Buttons /\ f = FieldOf(t[1]))
          /\ label' # label => t = qcToggleBtn
          /\ t = qcToggleBtn => cls'[qcPanel] \ {"hidden"} = cls[qcPanel] \ {"hidden"}]_vars

\* the reference group was clicked last, after the primer group and the QC
\* control were used; the probe group is as the page loaded it
C16_Witness ==
    /\ AllPresent
    /\ Clicked(<<"ref-btn-ref", 2>>)
    /\ value[referenceInput] = DataValue(<<"ref-btn-ref", 2>>)
    /\ value[primerInput] = DataValue(<<"primer-btn", 2>>)
    /\ ActiveIn("primer-btn") = {<<"primer-btn", 2>>}
    /\ value[probeInput] = PageValue(probeInput)
    /\ ActiveIn("probe-btn") = PageActive("probe-btn")
    /\ ~Hidden(qcPanel) /\ label = HideLabel
    /\ ~Hidden(singleSection) /\ Hidden(multiSection)

====
